---- MODULE Spec2Model ----
(***************************************************************************)
(* A state-machine model of the two stateful components of the scene demo: *)
(*   - SceneManager (Source/SceneManager.cpp): the tagged texture and      *)
(*     material registry, together with the part of the OpenGL and shader  *)
(*     state its methods write;                                            *)
(*   - ViewManager (Source/ViewManager.cpp): the camera pose, the          *)
(*     projection mode and the input callbacks.                            *)
(* Numbers are fixed point: angles in tenths of a degree, speeds in tenths *)
(* of a unit per second, times in tenths of a second, vector components in *)
(* thousandths, cursor coordinates in whole pixels.                        *)
(***************************************************************************)
EXTENDS Integers, Sequences, FiniteSets, TLC

VARIABLES
    \* ---- SceneManager ----
    m_textureIDs,        \* the written prefix of m_textureIDs[]: <<[ID, tag], ...>>
    m_loadedTextures,    \* int m_loadedTextures
    m_objectMaterials,   \* std::vector<OBJECT_MATERIAL>
    material,            \* the caller's OBJECT_MATERIAL passed by reference to FindMaterial
    \* ---- OpenGL context, as far as SceneManager writes it ----
    glNames,             \* texture names handed out by glGenTextures and not deleted
    glActiveUnit,        \* the active texture unit (glActiveTexture)
    glBound,             \* unit -> name bound to GL_TEXTURE_2D (0: none)
    imageBuffers,        \* decoded image buffers not yet passed to stbi_image_free
    overrun,             \* "none", or what a write past the end of m_textureIDs[] did
    \* ---- shader uniforms written by SceneManager ----
    u_bUseTexture,
    u_objectTexture,
    u_objectColor,
    u_material,
    \* ---- history ----
    hRegistered,         \* tags of the CreateGLTexture calls that returned true, in order
    last,                \* the operation of the last step, its inputs and its result
    \* ---- Camera (g_pCamera) ----
    Position, Front, Up, \* glm::vec3, in thousandths
    Zoom,                \* degrees
    MovementSpeed,       \* tenths of a unit per second
    \* ---- ViewManager's file-scope state ----
    gLastX, gLastY,      \* last cursor position seen, pixels
    gFirstMouse,
    gDeltaTime, gLastFrame,   \* tenths of a second
    perspectiveProjection,
    yaw, pitch,          \* tenths of a degree
    windowShouldClose,   \* glfwSetWindowShouldClose
    \* ---- shader uniforms written by ViewManager ----
    u_view, u_projection, u_viewPosition,
    \* ---- history ----
    ev,                  \* the input event of the last step
    hActivated           \* perspective mode was entered (at construction, or by a frame
                         \* that left orthographic mode) and no cursor sample was
                         \* processed since

sceneVars == <<m_textureIDs, m_loadedTextures, m_objectMaterials, material,
               glNames, glActiveUnit, glBound, imageBuffers, overrun,
               u_bUseTexture, u_objectTexture, u_objectColor, u_material,
               hRegistered, last>>

viewVars == <<Position, Front, Up, Zoom, MovementSpeed, gLastX, gLastY, gFirstMouse,
              gDeltaTime, gLastFrame, perspectiveProjection, yaw, pitch,
              windowShouldClose, u_view, u_projection, u_viewPosition, ev,
              hActivated>>

vars == <<sceneVars, viewVars>>

-----------------------------------------------------------------------------
(* Bounds of the model *)

\* CreateGLTexture and DestroyGLTextures are called while at most this many
\* texture names are allocated
MaxNames == 3
\* DefineObjectMaterials is called at most this many times
MaxDefine == 2

(* Program constants *)

\* "There are up to 16 slots": the texture units BindGLTextures addresses
TextureSlots == 16

\* tags CreateGLTexture is called with, and tags looked up
TextureTags == {"desktop", "Desktop", "tab"}
LookupTextureTags == TextureTags \cup {"table"}

\* what stbi_load can hand back: no image, or an image with 1..4 channels
DecodeResults ==
    {[image |-> FALSE, colorChannels |-> 0]} \cup
    {[image |-> TRUE, colorChannels |-> c] : c \in 1..4}

-----------------------------------------------------------------------------
(* The state SceneManager's texture methods read and write, as one record, *)
(* so that a method calling another composes.                              *)

TexState ==
    [tex |-> m_textureIDs, n |-> m_loadedTextures, names |-> glNames,
     active |-> glActiveUnit, bound |-> glBound, img |-> imageBuffers,
     overrun |-> overrun, hreg |-> hRegistered]

SetTexState(s) ==
    /\ m_textureIDs' = s.tex
    /\ m_loadedTextures' = s.n
    /\ glNames' = s.names
    /\ glActiveUnit' = s.active
    /\ glBound' = s.bound
    /\ imageBuffers' = s.img
    /\ overrun' = s.overrun
    /\ hRegistered' = s.hreg

\* glGenTextures(1, &id): a name not in use
GenName(names) == CHOOSE id \in 1..(Cardinality(names) + 1) : id \notin names

\* m_textureIDs[index] = [ID, tag]: writes the array element at a 0-based index
WriteEntry(tex, index, entry) ==
    IF index < Len(tex)
    THEN [tex EXCEPT ![index + 1] = entry]
    ELSE Append(tex, entry)

\* the registration at the end of CreateGLTexture
RegisterEntry(s, textureID, tag) ==
    [s EXCEPT !.tex = WriteEntry(s.tex, s.n, [ID |-> textureID, tag |-> tag]),
              !.n = s.n + 1,
              !.hreg = Append(s.hreg, tag)]

\* CreateGLTexture without the rejection of other channel counts
CreateGLTextureAnyChannels(s, d, tag) ==
    IF d.image
    THEN LET textureID == GenName(s.names)
         IN  RegisterEntry([s EXCEPT !.names = s.names \cup {textureID}], textureID, tag)
    ELSE s

\* CreateGLTexture without the glBindTexture(GL_TEXTURE_2D, 0) after the upload
CreateGLTextureKeepBound(s, d, tag) ==
    IF d.image
    THEN LET textureID == GenName(s.names)
             gen == [s EXCEPT !.img = s.img + 1,
                              !.names = s.names \cup {textureID},
                              !.bound = [s.bound EXCEPT ![s.active] = textureID]]
         IN  IF d.colorChannels = 3 \/ d.colorChannels = 4
             THEN RegisterEntry([gen EXCEPT !.img = gen.img - 1], textureID, tag)
             ELSE gen
    ELSE s

\* CreateGLTexture(filename, tag), with the outcome d of stbi_load(filename):
\* the state after the call, and the value returned
CreateGLTextureState(s, d, tag) ==
    IF d.image
    THEN LET textureID == GenName(s.names)
             gen == [s EXCEPT !.img = s.img + 1,
                              !.names = s.names \cup {textureID},
                              !.bound = [s.bound EXCEPT ![s.active] = textureID]]
         IN  IF d.colorChannels = 3 \/ d.colorChannels = 4
             THEN RegisterEntry(
                      [gen EXCEPT !.img = gen.img - 1,
                                  !.bound = [gen.bound EXCEPT ![gen.active] = 0]],
                      textureID, tag)
             ELSE gen
    ELSE s

CreateGLTextureReturn(d) ==
    d.image /\ (d.colorChannels = 3 \/ d.colorChannels = 4)

\* BindGLTextures(): the loop over i = from .. m_loadedTextures-1
RECURSIVE BindLoop(_, _)
BindLoop(s, i) ==
    IF i < s.n
    THEN BindLoop([s EXCEPT !.active = i,
                            !.bound = [s.bound EXCEPT ![i] = s.tex[i + 1].ID]],
                  i + 1)
    ELSE s

\* a loop that starts at the second entry
BindGLTexturesFromOne(s) == BindLoop(s, 1)

BindGLTexturesState(s) == BindLoop(s, 0)

\* DestroyGLTextures(): the loop over i = from .. m_loadedTextures-1
RECURSIVE DestroyLoop(_, _)
DestroyLoop(s, i) ==
    IF i < s.n
    THEN LET id == GenName(s.names)
         IN  DestroyLoop([s EXCEPT !.names = s.names \cup {id},
                                   !.tex = [s.tex EXCEPT ![i + 1].ID = id]],
                         i + 1)
    ELSE s

DestroyGLTexturesState(s) == DestroyLoop(s, 0)

\* FindTextureID(tag): the while loop from index
RECURSIVE FindTextureIDFrom(_, _, _, _)
FindTextureIDFrom(tex, n, tag, index) ==
    IF index < n
    THEN IF tex[index + 1].tag = tag
         THEN tex[index + 1].ID
         ELSE FindTextureIDFrom(tex, n, tag, index + 1)
    ELSE -1

FindTextureIDValue(tex, n, tag) == FindTextureIDFrom(tex, n, tag, 0)

\* FindTextureSlot(tag): the while loop from index
RECURSIVE FindTextureSlotFrom(_, _, _, _)
FindTextureSlotFrom(tex, n, tag, index) ==
    IF index < n
    THEN IF tex[index + 1].tag = tag
         THEN index
         ELSE FindTextureSlotFrom(tex, n, tag, index + 1)
    ELSE -1

\* FindTextureSlot with its scan started at index 1
FindTextureSlotFromOne(tex, n, tag) == FindTextureSlotFrom(tex, n, tag, 1)

FindTextureSlotValue(tex, n, tag) == FindTextureSlotFrom(tex, n, tag, 0)

-----------------------------------------------------------------------------
(* Materials *)

Vec3(x, y, z) == <<x, y, z>>

Material(tag, ambientColor, ambientStrength, diffuseColor, specularColor, shininess) ==
    [tag |-> tag, ambientColor |-> ambientColor, ambientStrength |-> ambientStrength,
     diffuseColor |-> diffuseColor, specularColor |-> specularColor,
     shininess |-> shininess]

\* the four materials DefineObjectMaterials pushes, in tenths
tableMaterial ==
    Material("table", Vec3(1, 1, 1), 5, Vec3(2, 2, 3), Vec3(8, 8, 10), 10)
blackPlasticMaterial ==
    Material("blackPlastic", Vec3(1, 1, 1), 1, Vec3(2, 2, 2), Vec3(1, 1, 1), 320)
greyPlasticMaterial ==
    Material("greyPlastic", Vec3(3, 3, 3), 3, Vec3(3, 3, 3), Vec3(3, 3, 3), 320)
screenMaterial ==
    Material("screen", Vec3(2, 2, 2), 8, Vec3(4, 4, 5), Vec3(10, 10, 10), 2560)

DefineObjectMaterialsState(mats) ==
    mats \o <<tableMaterial, blackPlasticMaterial, greyPlasticMaterial, screenMaterial>>

\* tags FindMaterial and SetShaderMaterial are called with
LookupMaterialTags == {"table", "blackPlastic", "greyPlastic", "screen", "glass", "Table"}

\* what an OBJECT_MATERIAL that was declared and never assigned can hold
ZeroMaterial == Material("", Vec3(0, 0, 0), 0, Vec3(0, 0, 0), Vec3(0, 0, 0), 0)
UninitializedMaterials ==
    {ZeroMaterial,
     Material("", Vec3(7, 0, 9), 13, Vec3(0, 4, 0), Vec3(6, 6, 0), 77)}

\* FindMaterial's assignments without the one to shininess
CopyMaterialNoShininess(out, entry) ==
    [out EXCEPT !.ambientColor = entry.ambientColor,
                !.ambientStrength = entry.ambientStrength,
                !.diffuseColor = entry.diffuseColor,
                !.specularColor = entry.specularColor]

\* the five assignments FindMaterial makes on a match (the tag is not copied)
CopyMaterial(out, entry) ==
    [out EXCEPT !.ambientColor = entry.ambientColor,
                !.ambientStrength = entry.ambientStrength,
                !.diffuseColor = entry.diffuseColor,
                !.specularColor = entry.specularColor,
                !.shininess = entry.shininess]

\* FindMaterial(tag, material): the while loop from index; the caller's material after it
RECURSIVE FindMaterialFrom(_, _, _, _)
FindMaterialFrom(mats, tag, out, index) ==
    IF index < Len(mats)
    THEN IF mats[index + 1].tag = tag
         THEN CopyMaterial(out, mats[index + 1])
         ELSE FindMaterialFrom(mats, tag, out, index + 1)
    ELSE out

FindMaterialOut(mats, tag, out) ==
    IF Len(mats) = 0 THEN out ELSE FindMaterialFrom(mats, tag, out, 0)

\* the value FindMaterial returns
FindMaterialReturn(mats, tag) ==
    IF Len(mats) = 0 THEN FALSE ELSE TRUE

\* the five uniforms SetShaderMaterial uploads
MaterialUniforms(m) ==
    [ambientColor |-> m.ambientColor, ambientStrength |-> m.ambientStrength,
     diffuseColor |-> m.diffuseColor, specularColor |-> m.specularColor,
     shininess |-> m.shininess]

NoUniforms == [ambientColor |-> <<>>, ambientStrength |-> -1,
               diffuseColor |-> <<>>, specularColor |-> <<>>, shininess |-> -1]

-----------------------------------------------------------------------------
(* Initial state: a constructed SceneManager, a fresh GL context *)

Op(op, tag, ok, slot) == [op |-> op, tag |-> tag, ok |-> ok, slot |-> slot]

SceneInit ==
    /\ m_textureIDs = <<>>
    /\ m_loadedTextures = 0
    /\ m_objectMaterials = <<>>
    /\ material = ZeroMaterial
    /\ glNames = {}
    /\ glActiveUnit = 0
    /\ glBound = [u \in 0..(TextureSlots - 1) |-> 0]
    /\ imageBuffers = 0
    /\ overrun = "none"
    /\ u_bUseTexture = FALSE
    /\ u_objectTexture = 0
    /\ u_objectColor = <<0, 0, 0, 0>>
    /\ u_material = NoUniforms
    /\ hRegistered = <<>>
    /\ last = Op("SceneManager", "", TRUE, -1)

texVars == <<m_textureIDs, m_loadedTextures, glNames, glActiveUnit, glBound,
             imageBuffers, overrun, hRegistered>>
matVars == <<m_objectMaterials, material, u_material>>
texUniforms == <<u_bUseTexture, u_objectTexture, u_objectColor>>

-----------------------------------------------------------------------------
(* SceneManager's operations *)

CreateGLTexture(d, tag) ==
    /\ Cardinality(glNames) < MaxNames
    /\ SetTexState(CreateGLTextureState(TexState, d, tag))
    /\ last' = Op("CreateGLTexture", tag, CreateGLTextureReturn(d), d.colorChannels)
    /\ UNCHANGED <<viewVars, matVars, texUniforms>>

BindGLTextures ==
    /\ SetTexState(BindGLTexturesState(TexState))
    /\ last' = Op("BindGLTextures", "", TRUE, -1)
    /\ UNCHANGED <<viewVars, matVars, texUniforms>>

DestroyGLTextures ==
    /\ Cardinality(glNames) <= MaxNames
    /\ SetTexState(DestroyGLTexturesState(TexState))
    /\ last' = Op("DestroyGLTextures", "", TRUE, -1)
    /\ UNCHANGED <<viewVars, matVars, texUniforms>>

FindTextureID(tag) ==
    /\ last' = Op("FindTextureID", tag, TRUE,
                  FindTextureIDValue(m_textureIDs, m_loadedTextures, tag))
    /\ UNCHANGED <<viewVars, texVars, matVars, texUniforms>>

FindTextureSlot(tag) ==
    /\ last' = Op("FindTextureSlot", tag, TRUE,
                  FindTextureSlotValue(m_textureIDs, m_loadedTextures, tag))
    /\ UNCHANGED <<viewVars, texVars, matVars, texUniforms>>

\* the three registrations of LoadSceneTextures, then BindGLTextures
LoadSceneTexturesState(s, d1, d2, d3) ==
    BindGLTexturesState(
        CreateGLTextureState(
            CreateGLTextureState(
                CreateGLTextureState(s, d1, "desktop"),
                d2, "tab"),
            d3, "table"))

LoadSceneTextures(d1, d2, d3) ==
    /\ Cardinality(glNames) + 3 <= MaxNames
    /\ SetTexState(LoadSceneTexturesState(TexState, d1, d2, d3))
    /\ last' = Op("LoadSceneTextures", "", TRUE, -1)
    /\ UNCHANGED <<viewVars, matVars, texUniforms>>

\* what the build can do with the write to m_textureIDs[16], one past the last
\* element: store it in the memory behind the array and go on, or fault
OverflowOutcomes == {"past", "crash"}

\* CreateGLTexture(filename, tag) on a registry of any size: with TextureSlots
\* entries registered the registration writes past the end of m_textureIDs[],
\* and ub is what the build does then
CreateGLTextureAnySize(d, tag, ub) ==
    /\ overrun = "none"
    /\ LET s == TexState
           t == CreateGLTextureState(s, d, tag)
       IN  IF CreateGLTextureReturn(d) /\ m_loadedTextures >= TextureSlots
           THEN \/ /\ ub = "past"
                   /\ SetTexState([t EXCEPT !.overrun = "past"])
                   /\ last' = Op("CreateGLTexture", tag, TRUE, d.colorChannels)
                \/ /\ ub = "crash"
                   /\ SetTexState([t EXCEPT !.tex = s.tex, !.n = s.n, !.hreg = s.hreg,
                                            !.overrun = "crash"])
                   /\ last' = Op("abort", tag, FALSE, d.colorChannels)
           ELSE /\ ub = "past"
                /\ SetTexState(t)
                /\ last' = Op("CreateGLTexture", tag, CreateGLTextureReturn(d),
                              d.colorChannels)
    /\ UNCHANGED <<viewVars, matVars, texUniforms>>

SetShaderColor(color) ==
    /\ u_bUseTexture' = FALSE
    /\ u_objectColor' = color
    /\ last' = Op("SetShaderColor", "", TRUE, -1)
    /\ UNCHANGED <<viewVars, texVars, matVars, u_objectTexture>>

SetShaderTexture(textureTag) ==
    /\ u_bUseTexture' = TRUE
    /\ u_objectTexture' = FindTextureSlotValue(m_textureIDs, m_loadedTextures, textureTag)
    /\ last' = Op("SetShaderTexture", textureTag, TRUE, -1)
    /\ UNCHANGED <<viewVars, texVars, matVars, u_objectColor>>

DefineObjectMaterials ==
    /\ Len(m_objectMaterials) < 4 * MaxDefine
    /\ m_objectMaterials' = DefineObjectMaterialsState(m_objectMaterials)
    /\ last' = Op("DefineObjectMaterials", "", TRUE, -1)
    /\ UNCHANGED <<viewVars, texVars, texUniforms, material, u_material>>

\* a caller of FindMaterial declares the OBJECT_MATERIAL it will pass
DeclareMaterial(local) ==
    /\ material' = local
    /\ last' = Op("DeclareMaterial", "", TRUE, -1)
    /\ UNCHANGED <<viewVars, texVars, texUniforms, m_objectMaterials, u_material>>

FindMaterial(tag) ==
    /\ material' = FindMaterialOut(m_objectMaterials, tag, material)
    /\ last' = Op("FindMaterial", tag, FindMaterialReturn(m_objectMaterials, tag), -1)
    /\ UNCHANGED <<viewVars, texVars, texUniforms, m_objectMaterials, u_material>>

\* SetShaderMaterial(materialTag): its local OBJECT_MATERIAL is declared without
\* an initial value, local being what it then holds
SetShaderMaterial(materialTag, local) ==
    /\ IF Len(m_objectMaterials) > 0
          /\ FindMaterialReturn(m_objectMaterials, materialTag)
       THEN u_material' =
                MaterialUniforms(FindMaterialOut(m_objectMaterials, materialTag, local))
       ELSE u_material' = u_material
    /\ last' = Op("SetShaderMaterial", materialTag, TRUE, -1)
    /\ UNCHANGED <<viewVars, texVars, texUniforms, m_objectMaterials, material>>

-----------------------------------------------------------------------------
(* Vector and angle arithmetic, fixed point *)

VAdd(a, b) == <<a[1] + b[1], a[2] + b[2], a[3] + b[3]>>
VSub(a, b) == <<a[1] - b[1], a[2] - b[2], a[3] - b[3]>>

\* s * v for a scalar s in hundredths and a vector v in thousandths
VScale(s, v) == <<(s * v[1]) \div 100, (s * v[2]) \div 100, (s * v[3]) \div 100>>

\* glm::cross of two vectors in thousandths
Cross(a, b) ==
    <<(a[2] * b[3] - a[3] * b[2]) \div 1000,
      (a[3] * b[1] - a[1] * b[3]) \div 1000,
      (a[1] * b[2] - a[2] * b[1]) \div 1000>>

\* integer square root, by Newton's iteration from r
RECURSIVE SqrtFrom(_, _)
SqrtFrom(n, r) ==
    LET r2 == (r + n \div r) \div 2
    IN  IF r2 >= r THEN r ELSE SqrtFrom(n, r2)

ISqrt(n) == IF n <= 0 THEN 0 ELSE SqrtFrom(n, n)

\* sqrt(v.v) in thousandths
VLength(v) == ISqrt(v[1] * v[1] + v[2] * v[2] + v[3] * v[3])

\* glm::normalize: v / |v|, in thousandths, rounded to nearest
RoundDiv(a, b) == IF a >= 0 THEN (2 * a + b) \div (2 * b) ELSE -(((-2) * a + b) \div (2 * b))

Normalize(v) ==
    LET len == VLength(v)
    IN  <<RoundDiv(v[1] * 1000, len), RoundDiv(v[2] * 1000, len),
          RoundDiv(v[3] * 1000, len)>>

\* sin of t tenths of a degree, 0 <= t <= 1800, in thousandths (Bhaskara's
\* rational approximation 4t(180-t) / (40500 - t(180-t)), within 0.002)
SinHalfTurn(t) ==
    LET p == t * (1800 - t)
    IN  (400 * p) \div ((4050000 - p) \div 10)

\* sin(glm::radians(d)) for d in tenths of a degree, in thousandths
Sin(d) ==
    LET t == d % 3600
    IN  IF t <= 1800 THEN SinHalfTurn(t) ELSE -SinHalfTurn(t - 1800)

\* cos(glm::radians(d))
Cos(d) == Sin(d + 900)

\* the direction Mouse_Position_Callback computes from yaw and pitch
Direction(y, p) ==
    <<(Cos(y) * Cos(p)) \div 1000, Sin(p), (Sin(y) * Cos(p)) \div 1000>>

-----------------------------------------------------------------------------
(* ViewManager *)

\* window size
WINDOW_WIDTH == 1000
WINDOW_HEIGHT == 800

\* the camera's movement speed as Camera() leaves it, tenths
CameraDefaultSpeed == 25

\* the pitch limits, tenths of a degree
PitchMax == 890
PitchMin == -890

\* the speed limits of scroll_callback and the value it resets to, tenths
SpeedMin == 1
SpeedMax == 200
SpeedReset == 100

(* Bounds of the model *)

\* |yaw| stays within this many tenths of a degree
MaxYaw == 900
\* glfwGetTime stays within this many tenths of a second
MaxTime == 1

\* cursor positions delivered by the window system
CursorSamples == {<<500, 400>>, <<1400, 1300>>}
\* scroll deltas delivered by the window system
ScrollDeltas == {-100, 100}
\* time between two frames, tenths of a second
FrameDeltas == {0, 1}
\* the sets of keys found pressed by one frame's poll
KeySets ==
    {{}, {"ESCAPE"}, {"P"}, {"O"}, {"P", "O"}, {"W"}, {"S"}, {"A"}, {"D"},
     {"Q"}, {"E"}, {"O", "W"}, {"W", "D"}}

Event(op, keys, dy) == [op |-> op, keys |-> keys, dy |-> dy]

LookAt(eye, center, up) == [eye |-> eye, center |-> center, up |-> up]

\* glm::perspective(glm::radians(fovy), aspect, near, far): fovy in degrees, the
\* aspect as width and height, near and far in tenths
Perspective(fovy, width, height, near, far) ==
    [fovy |-> fovy, width |-> width, height |-> height, near |-> near, far |-> far]

\* Camera::GetViewMatrix
GetViewMatrix(position, front, up) == LookAt(position, VAdd(position, front), up)

\* the state after ViewManager::ViewManager
ViewInit ==
    /\ Position = <<0, 3300, 12000>>
    /\ Front = <<0, -500, -2000>>
    /\ Up = <<0, 1000, 0>>
    /\ Zoom = 80
    /\ MovementSpeed = CameraDefaultSpeed
    /\ gLastX = WINDOW_WIDTH \div 2
    /\ gLastY = WINDOW_HEIGHT \div 2
    /\ gFirstMouse = TRUE
    /\ gDeltaTime = 0
    /\ gLastFrame = 0
    /\ perspectiveProjection = TRUE
    /\ yaw = -900
    /\ pitch = 0
    /\ windowShouldClose = FALSE
    /\ u_view = LookAt(<<>>, <<>>, <<>>)
    /\ u_projection = Perspective(0, 0, 0, 0, 0)
    /\ u_viewPosition = <<>>
    /\ ev = Event("ViewManager", {}, 0)
    /\ hActivated = TRUE

\* the clamp of pitch without its lower check
ClampPitchUpperOnly(p) == IF p > 890 THEN 890 ELSE p

\* the two clamps of Mouse_Position_Callback
ClampPitch(p) ==
    LET p1 == IF p > PitchMax THEN PitchMax ELSE p
    IN  IF p1 < PitchMin THEN PitchMin ELSE p1

\* the callback taking yaw and pitch back to their initial values on the first
\* sample processed after perspective mode was entered
Mouse_Position_CallbackFreshAngles(xpos, ypos) ==
    /\ ev' = Event("Mouse_Position_Callback", {}, 0)
    /\ hActivated' = (hActivated /\ ~perspectiveProjection)
    /\ IF ~perspectiveProjection
       THEN UNCHANGED <<gLastX, gLastY, gFirstMouse, yaw, pitch, Front>>
       ELSE LET lastX == IF gFirstMouse THEN xpos ELSE gLastX
                lastY == IF gFirstMouse THEN ypos ELSE gLastY
                xoffset == xpos - lastX
                yoffset == lastY - ypos
            IN  /\ gFirstMouse' = FALSE
                /\ gLastX' = xpos
                /\ gLastY' = ypos
                /\ yaw' = (IF hActivated THEN -900 ELSE yaw) + xoffset
                /\ pitch' = ClampPitch((IF hActivated THEN 0 ELSE pitch) + yoffset)
                /\ Front' = Normalize(Direction(yaw', pitch'))
                /\ yaw' <= MaxYaw /\ yaw' >= -MaxYaw
    /\ UNCHANGED <<Position, Up, Zoom, MovementSpeed, gDeltaTime, gLastFrame,
                   perspectiveProjection, windowShouldClose,
                   u_view, u_projection, u_viewPosition>>
    /\ UNCHANGED sceneVars

\* the callback without the check of the projection mode
Mouse_Position_CallbackAnyMode(xpos, ypos) ==
    /\ ev' = Event("Mouse_Position_Callback", {}, 0)
    /\ hActivated' = (hActivated /\ ~perspectiveProjection)
    /\ LET lastX == IF gFirstMouse THEN xpos ELSE gLastX
           lastY == IF gFirstMouse THEN ypos ELSE gLastY
           xoffset == xpos - lastX
           yoffset == lastY - ypos
       IN  /\ gFirstMouse' = FALSE
           /\ gLastX' = xpos
           /\ gLastY' = ypos
           /\ yaw' = yaw + xoffset
           /\ pitch' = ClampPitch(pitch + yoffset)
           /\ Front' = Normalize(Direction(yaw', pitch'))
           /\ yaw' <= MaxYaw /\ yaw' >= -MaxYaw
    /\ UNCHANGED <<Position, Up, Zoom, MovementSpeed, gDeltaTime, gLastFrame,
                   perspectiveProjection, windowShouldClose,
                   u_view, u_projection, u_viewPosition>>
    /\ UNCHANGED sceneVars

Mouse_Position_Callback(xpos, ypos) ==
    /\ ev' = Event("Mouse_Position_Callback", {}, 0)
    /\ hActivated' = (hActivated /\ ~perspectiveProjection)
    /\ IF ~perspectiveProjection
       THEN UNCHANGED <<gLastX, gLastY, gFirstMouse, yaw, pitch, Front>>
       ELSE LET lastX == IF gFirstMouse THEN xpos ELSE gLastX
                lastY == IF gFirstMouse THEN ypos ELSE gLastY
                xoffset == xpos - lastX
                yoffset == lastY - ypos
            IN  /\ gFirstMouse' = FALSE
                /\ gLastX' = xpos
                /\ gLastY' = ypos
                /\ yaw' = yaw + xoffset
                /\ pitch' = ClampPitch(pitch + yoffset)
                /\ Front' = Normalize(Direction(yaw', pitch'))
                /\ yaw' <= MaxYaw /\ yaw' >= -MaxYaw
    /\ UNCHANGED <<Position, Up, Zoom, MovementSpeed, gDeltaTime, gLastFrame,
                   perspectiveProjection, windowShouldClose,
                   u_view, u_projection, u_viewPosition>>
    /\ UNCHANGED sceneVars

\* the clamp of the speed with the upper check clamping to the limit
ClampSpeedSymmetric(v) == IF v < 1 THEN 1 ELSE IF v > 200 THEN 200 ELSE v

\* the two clamps of scroll_callback
ClampSpeed(v) ==
    LET v1 == IF v < SpeedMin THEN SpeedMin ELSE v
    IN  IF v1 > SpeedMax THEN SpeedReset ELSE v1

scroll_callback(xoffset, yoffset) ==
    /\ ev' = Event("scroll_callback", {}, yoffset)
    /\ UNCHANGED hActivated
    /\ MovementSpeed' = ClampSpeed(MovementSpeed + yoffset)
    /\ UNCHANGED <<Position, Front, Up, Zoom, gLastX, gLastY, gFirstMouse,
                   gDeltaTime, gLastFrame, perspectiveProjection, yaw, pitch,
                   windowShouldClose, u_view, u_projection, u_viewPosition>>
    /\ UNCHANGED sceneVars

\* the two key checks in the other order
KeyModePLast(mode, keys) ==
    LET m1 == IF "O" \in keys THEN FALSE ELSE mode
    IN  IF "P" \in keys THEN TRUE ELSE m1

\* the projection mode after the two key checks of ProcessKeyboardEvents
KeyMode(mode, keys) ==
    LET m1 == IF "P" \in keys THEN TRUE ELSE mode
    IN  IF "O" \in keys THEN FALSE ELSE m1

\* the six movement checks of ProcessKeyboardEvents, in order; cameraSpeed in hundredths
KeyMove(pos, front, up, cameraSpeed, keys) ==
    LET right == Normalize(Cross(front, up))
        p1 == IF "W" \in keys THEN VAdd(pos, VScale(cameraSpeed, front)) ELSE pos
        p2 == IF "S" \in keys THEN VSub(p1, VScale(cameraSpeed, front)) ELSE p1
        p3 == IF "A" \in keys THEN VSub(p2, VScale(cameraSpeed, right)) ELSE p2
        p4 == IF "D" \in keys THEN VAdd(p3, VScale(cameraSpeed, right)) ELSE p3
        p5 == IF "Q" \in keys THEN VAdd(p4, VScale(cameraSpeed, up)) ELSE p4
        p6 == IF "E" \in keys THEN VSub(p5, VScale(cameraSpeed, up)) ELSE p5
    IN  p6

\* the camera position after ProcessKeyboardEvents
KeyPosition(pos, front, up, mode, cameraSpeed, keys) ==
    IF mode THEN KeyMove(pos, front, up, cameraSpeed, keys) ELSE pos

\* the pose reset without the assignment to Front
ResetPoseKeepFront(mode, pose) ==
    IF ~mode
    THEN [Position |-> <<0, 5000, 14000>>, Front |-> pose.Front, Up |-> <<0, 1000, 0>>]
    ELSE pose

\* the camera pose PrepareSceneView leaves: reset when the mode is orthographic
ResetPose(mode, pose) ==
    IF ~mode
    THEN [Position |-> <<0, 5000, 14000>>, Front |-> <<0, -200, -1000>>,
          Up |-> <<0, 1000, 0>>]
    ELSE pose

\* the projection of the orthographic branch kept for the upload
FrameProjectionOfBranch(mode, zoom) ==
    LET branch == Perspective(45, WINDOW_WIDTH, WINDOW_HEIGHT, 1, 1000)
    IN  IF mode THEN Perspective(zoom, WINDOW_WIDTH, WINDOW_HEIGHT, 1, 1000) ELSE branch

\* the projection PrepareSceneView uploads
FrameProjection(mode, zoom) ==
    LET branch == Perspective(45, WINDOW_WIDTH, WINDOW_HEIGHT, 1, 1000)
    IN  Perspective(zoom, WINDOW_WIDTH, WINDOW_HEIGHT, 1, 1000)

PrepareSceneView(currentFrame, keys) ==
    /\ currentFrame <= MaxTime
    /\ ev' = Event("PrepareSceneView", keys, 0)
    /\ gDeltaTime' = currentFrame - gLastFrame
    /\ gLastFrame' = currentFrame
    \* ProcessKeyboardEvents
    /\ windowShouldClose' = (windowShouldClose \/ "ESCAPE" \in keys)
    /\ perspectiveProjection' = KeyMode(perspectiveProjection, keys)
    /\ hActivated' = (hActivated \/ (~perspectiveProjection /\ perspectiveProjection'))
    /\ LET moved == KeyPosition(Position, Front, Up, perspectiveProjection',
                                MovementSpeed * gDeltaTime', keys)
           view == GetViewMatrix(moved, Front, Up)
           pose == ResetPose(perspectiveProjection',
                             [Position |-> moved, Front |-> Front, Up |-> Up])
       IN  /\ Position' = pose.Position
           /\ Front' = pose.Front
           /\ Up' = pose.Up
           /\ u_view' = view
           /\ u_projection' = FrameProjection(perspectiveProjection', Zoom)
           /\ u_viewPosition' = pose.Position
    /\ UNCHANGED <<Zoom, MovementSpeed, gLastX, gLastY, gFirstMouse, yaw, pitch>>
    /\ UNCHANGED sceneVars

\* the mode keys and the escape key alone
ModeKeySets == {{}, {"ESCAPE"}, {"P"}, {"O"}, {"P", "O"}}
\* cursor samples that also move the cursor by 100 pixels to the right, and far
\* above the window
FineCursorSamples == CursorSamples \cup {<<600, 400>>, <<500, -30000>>}
\* a scroll that takes any speed below the minimum
SlowScrollDeltas == {-300}

\* every input of the model
ViewNext ==
    \/ \E c \in FineCursorSamples : Mouse_Position_Callback(c[1], c[2])
    \/ \E yoffset \in ScrollDeltas \cup SlowScrollDeltas : scroll_callback(0, yoffset)
    \/ \E dt \in FrameDeltas, keys \in KeySets : PrepareSceneView(gLastFrame + dt, keys)

\* the three handlers with the camera standing still: no movement key is held
ControlsNext ==
    \/ \E c \in FineCursorSamples : Mouse_Position_Callback(c[1], c[2])
    \/ \E yoffset \in ScrollDeltas : scroll_callback(0, yoffset)
    \/ \E dt \in FrameDeltas, keys \in ModeKeySets :
           PrepareSceneView(gLastFrame + dt, keys)

\* the three handlers with the camera moving, at the default and at the minimum speed
MotionNext ==
    \/ \E c \in CursorSamples : Mouse_Position_Callback(c[1], c[2])
    \/ \E yoffset \in SlowScrollDeltas : scroll_callback(0, yoffset)
    \/ \E dt \in FrameDeltas, keys \in KeySets : PrepareSceneView(gLastFrame + dt, keys)

-----------------------------------------------------------------------------
(* Specifications *)

Colors == {<<5, 5, 5, 10>>}

TextureNext ==
    \/ \E d \in DecodeResults, tag \in TextureTags : CreateGLTexture(d, tag)
    \/ BindGLTextures
    \/ DestroyGLTextures
    \/ \E tag \in LookupTextureTags : FindTextureID(tag)
    \/ \E tag \in LookupTextureTags : FindTextureSlot(tag)
    \/ \E d1 \in DecodeResults, d2 \in DecodeResults, d3 \in DecodeResults :
           LoadSceneTextures(d1, d2, d3)
    \/ \E color \in Colors : SetShaderColor(color)
    \/ \E tag \in LookupTextureTags : SetShaderTexture(tag)

\* decode outcomes and tags of a scene that registers many textures: every image
\* has 3 channels or does not decode, and the tag "tab" is used once
ManyDecodeResults ==
    {[image |-> FALSE, colorChannels |-> 0], [image |-> TRUE, colorChannels |-> 3]}
ManyTags ==
    {"desktop"} \cup
    (IF \E i \in 1..Len(hRegistered) : hRegistered[i] = "tab" THEN {} ELSE {"tab"})

\* registrations up to and past the capacity of m_textureIDs[]
CapacityNext ==
    \/ \E d \in ManyDecodeResults, tag \in ManyTags, ub \in OverflowOutcomes :
           CreateGLTextureAnySize(d, tag, ub)
    \/ overrun = "none" /\ BindGLTextures
    \/ \E tag \in LookupTextureTags : overrun = "none" /\ FindTextureSlot(tag)

MaterialNext ==
    \/ DefineObjectMaterials
    \/ \E local \in UninitializedMaterials : DeclareMaterial(local)
    \/ \E tag \in LookupMaterialTags : FindMaterial(tag)
    \/ \E tag \in LookupMaterialTags, local \in UninitializedMaterials :
           SetShaderMaterial(tag, local)

Init == SceneInit /\ ViewInit

Next == TextureNext \/ CapacityNext \/ MaterialNext \/ ViewNext

\* the texture registry alone
SpecTextures == Init /\ [][TextureNext]_vars
\* the texture registry filled to its capacity
SpecCapacity == Init /\ [][CapacityNext]_vars
\* the material catalogue alone
SpecMaterials == Init /\ [][MaterialNext]_vars

\* the input handlers, no movement key held
SpecControls == Init /\ [][ControlsNext]_vars
\* the input handlers, movement keys held
SpecMotion == Init /\ [][MotionNext]_vars

Spec == Init /\ [][Next]_vars

-----------------------------------------------------------------------------
(* Properties of the texture registry and the material catalogue *)

\* the 0-based position of the first element of seq equal to x, -1 if there is none
FirstIndexOf(seq, x) ==
    IF \E i \in 1..Len(seq) : seq[i] = x
    THEN (CHOOSE i \in 1..Len(seq) :
              seq[i] = x /\ \A j \in 1..(i - 1) : seq[j] # x) - 1
    ELSE -1

HasMaterial(mats, tag) == \E i \in 1..Len(mats) : mats[i].tag = tag

FirstMaterial(mats, tag) ==
    mats[CHOOSE i \in 1..Len(mats) :
             mats[i].tag = tag /\ \A j \in 1..(i - 1) : mats[j].tag # tag]

\* C1: whatever CreateGLTexture calls came before, failed ones included,
\* FindTextureSlot(tag) returns the 0-based position, among the successful
\* registrations, of the first one made with exactly that tag, and -1 when no
\* successful registration carried it.
C1_FindTextureSlot ==
    last.op = "FindTextureSlot" => last.slot = FirstIndexOf(hRegistered, last.tag)

\* a lookup that returns slot 1 for a tag registered after another one, with a
\* failed registration (a leaked decode buffer) in the history
C1_Witness ==
    /\ last.op = "FindTextureSlot"
    /\ last.slot = 1
    /\ imageBuffers >= 1

\* C2: FindMaterial with a tag no catalogue entry carries returns false and leaves
\* the caller's material as it was, for an empty and for a non-empty catalogue.
C2_NotFound ==
    [][(last'.op = "FindMaterial" /\ ~HasMaterial(m_objectMaterials, last'.tag))
          => (~last'.ok /\ material' = material)]_vars

\* C3: FindMaterial with a tag some catalogue entry carries returns true, leaves in
\* the caller's material the five values of the first entry with that tag, and
\* leaves the catalogue as it was.
C3_Found ==
    [][(last'.op = "FindMaterial" /\ HasMaterial(m_objectMaterials, last'.tag))
          => /\ last'.ok
             /\ MaterialUniforms(material') =
                    MaterialUniforms(FirstMaterial(m_objectMaterials, last'.tag))
             /\ m_objectMaterials' = m_objectMaterials]_vars

\* the screen material found in a catalogue that holds every tag twice
C3_Witness ==
    /\ last.op = "FindMaterial"
    /\ last.tag = "screen"
    /\ last.ok
    /\ Len(m_objectMaterials) = 8
    /\ MaterialUniforms(material) = MaterialUniforms(screenMaterial)

\* C4: a CreateGLTexture call whose image does not decode (0 channels reported) or
\* decodes to a channel count other than 3 and 4 returns false and leaves
\* m_textureIDs and m_loadedTextures as they were.
C4_FailedRegistration ==
    [][(last'.op = "CreateGLTexture" /\ last'.slot \notin {3, 4})
          => /\ ~last'.ok
             /\ m_textureIDs' = m_textureIDs
             /\ m_loadedTextures' = m_loadedTextures]_vars

\* a registration refused for its channel count, made on a registry that holds an entry
C4_Witness ==
    /\ last.op = "CreateGLTexture"
    /\ last.slot \in {1, 2}
    /\ ~last.ok
    /\ m_loadedTextures >= 1

\* C9: after SetShaderTexture with a tag that no successful registration carried,
\* texturing is off for the shader and the sampler uniform is not -1.
C9_NoTextureBound ==
    (last.op = "SetShaderTexture" /\ FirstIndexOf(hRegistered, last.tag) = -1)
        => (~u_bUseTexture /\ u_objectTexture # -1)

\* C11: m_loadedTextures never exceeds 16, every slot FindTextureSlot returns is
\* at most 15, and a CreateGLTexture call that finds 16 entries registered returns
\* false and registers nothing.
C11_Capacity ==
    /\ m_loadedTextures <= 16
    /\ Len(hRegistered) <= 16
    /\ overrun = "none"
    /\ last.op = "FindTextureSlot" => last.slot <= 15

\* C12: right after BindGLTextures (also as the last step of LoadSceneTextures),
\* texture unit i has the ID stored in m_textureIDs[i] bound, for every i below
\* m_loadedTextures; so for every tag registered, the unit FindTextureSlot
\* returns for it is the position of the first registration with that tag and
\* holds that entry's texture.
C12_BindAll ==
    last.op \in {"BindGLTextures", "LoadSceneTextures"} =>
        /\ \A i \in 0..(m_loadedTextures - 1) : glBound[i] = m_textureIDs[i + 1].ID
        /\ \A k \in 1..Len(hRegistered) :
               LET slot == FindTextureSlotValue(m_textureIDs, m_loadedTextures,
                                                hRegistered[k])
               IN  /\ slot = FirstIndexOf(hRegistered, hRegistered[k])
                   /\ glBound[slot] = m_textureIDs[slot + 1].ID
                   /\ glBound[slot] # 0

\* BindGLTextures has just bound three entries, two of them with the same tag
C12_Witness ==
    /\ last.op = "BindGLTextures"
    /\ m_loadedTextures = 3
    /\ hRegistered[1] = hRegistered[3]
    /\ hRegistered[2] # hRegistered[1]
    /\ glActiveUnit = 2
    /\ glBound[1] = m_textureIDs[2].ID

\* C10: a DestroyGLTextures step leaves none of the registered texture names
\* allocated and allocates no new name.
C10_ReleaseAll ==
    [][last'.op = "DestroyGLTextures"
          => /\ \A i \in 1..m_loadedTextures : m_textureIDs[i].ID \notin glNames'
             /\ glNames' \subseteq glNames]_vars

-----------------------------------------------------------------------------
(* Properties of the camera *)

\* C13: in every reachable state Front has length 1 (1000 thousandths, within
\* one percent for the rounding of the fixed-point arithmetic): at construction,
\* after every cursor sample and after every pose reset.
C13_FrontUnit == VLength(Front) >= 990 /\ VLength(Front) <= 1010

\* C14: a cursor sample delivered while the projection mode is orthographic
\* leaves yaw, pitch, Front, gLastX, gLastY and gFirstMouse as they were.
C14_OrthographicCursor ==
    [][(ev'.op = "Mouse_Position_Callback" /\ perspectiveProjection = FALSE) =>
           UNCHANGED <<yaw, pitch, Front, gLastX, gLastY, gFirstMouse>>]_vars

\* a cursor sample was delivered in orthographic mode, after another one had been
\* processed in perspective mode and had moved the camera
C14_Witness ==
    /\ ev.op = "Mouse_Position_Callback"
    /\ perspectiveProjection = FALSE
    /\ gFirstMouse = FALSE
    /\ yaw # -900

\* C15: the first cursor sample processed after mouse handling became active, at
\* start-up and after each frame that switched from orthographic back to
\* perspective, seeds gLastX and gLastY, so that its offsets are zero and yaw and
\* pitch keep their values.
C15_FirstSample ==
    [][(/\ ev'.op = "Mouse_Position_Callback"
        /\ perspectiveProjection = TRUE
        /\ hActivated = TRUE)
       => (yaw' = yaw /\ pitch' = pitch)]_vars

\* C16: after every frame, the view matrix uploaded is the look-at of the
\* Position, Front and Up the camera holds when the uniforms are uploaded, so its
\* eye is the position uploaded as viewPosition; also in the frame that switches
\* to orthographic mode.
C16_ViewOfUploadedPose ==
    ev.op = "PrepareSceneView" =>
        /\ u_view = GetViewMatrix(Position, Front, Up)
        /\ u_view.eye = u_viewPosition

\* C17: after every frame, in both modes, the projection uploaded is the
\* perspective matrix with the camera's zoom as field of view, aspect 1000/800,
\* near 0.1 and far 100.0; the matrix with the fixed 45 degrees is not uploaded.
C17_ProjectionUploaded ==
    ev.op = "PrepareSceneView" =>
        /\ u_projection = [fovy |-> Zoom, width |-> 1000, height |-> 800,
                           near |-> 1, far |-> 1000]
        /\ u_projection # Perspective(45, 1000, 800, 1, 1000)

\* a frame in orthographic mode has uploaded the projection of zoom 80
C17_Witness ==
    /\ ev.op = "PrepareSceneView"
    /\ perspectiveProjection = FALSE
    /\ "O" \in ev.keys
    /\ u_projection.fovy = 80

\* C18: a CreateGLTexture call on an image that decodes with a channel count
\* other than 3 and 4 has no side effect: the set of allocated texture names, the
\* bindings of the texture units and the number of unreleased image buffers are
\* what they were before the call.
C18_BadChannels ==
    [][(last'.op = "CreateGLTexture" /\ last'.slot \in {1, 2}) =>
           UNCHANGED <<glNames, glBound, imageBuffers>>]_vars

\* C19: SetShaderMaterial uploads the material uniforms only for a registered
\* tag, and then the values of the first entry with that tag; for a tag that is
\* not registered it leaves the uniforms unchanged.
C19_SetShaderMaterial ==
    [][last'.op = "SetShaderMaterial" =>
           IF HasMaterial(m_objectMaterials, last'.tag)
           THEN u_material' = MaterialUniforms(FirstMaterial(m_objectMaterials,
                                                             last'.tag))
           ELSE u_material' = u_material]_vars

\* the state BindGLTextures leaves with n >= 1 entries: unit i holds the texture
\* of entry i for every i < n, and the last unit, n - 1, is the active one
BoundAll ==
    /\ m_loadedTextures >= 1
    /\ glActiveUnit = m_loadedTextures - 1
    /\ \A i \in 0..(m_loadedTextures - 1) : glBound[i] = m_textureIDs[i + 1].ID

\* A successful CreateGLTexture call made in that state leaves unit n - 1 with
\* no texture bound, and FindTextureSlot then returns, for the tag of entry
\* n - 1, the slot SlotOf(n, tag, first) says; and no operation other than
\* CreateGLTexture, BindGLTextures and LoadSceneTextures changes a binding.
RegisterAfterBind(SlotOf(_, _, _)) ==
    /\ (last'.op = "CreateGLTexture" /\ last'.ok /\ BoundAll) =>
           LET n == m_loadedTextures
               tag == m_textureIDs[n].tag
           IN  /\ glActiveUnit' = n - 1
               /\ glBound'[n - 1] = 0
               /\ m_textureIDs'[n] = m_textureIDs[n]
               /\ FindTextureSlotValue(m_textureIDs', m_loadedTextures', tag) =
                      SlotOf(n, tag, FirstIndexOf(hRegistered, tag))
    /\ last'.op \notin {"CreateGLTexture", "BindGLTextures", "LoadSceneTextures"} =>
           glBound' = glBound

SlotLast(n, tag, first) == n - 1
SlotFirst(n, tag, first) == first

\* C20 as stated: a successful CreateGLTexture call made after BindGLTextures
\* bound n >= 1 textures leaves unit n - 1 with no texture bound, while
\* FindTextureSlot still returns n - 1 for the tag of entry n - 1.
C20_AsStated == [][RegisterAfterBind(SlotLast)]_vars

\* C20: a successful CreateGLTexture call made after BindGLTextures bound n >= 1
\* textures leaves unit n - 1 with no texture bound, while FindTextureSlot still
\* returns, for the tag of entry n - 1, the slot of the first entry with that
\* tag: n - 1 when no earlier entry carries the tag; the bindings stay so under
\* every operation other than a registration and BindGLTextures.
C20_RegisterAfterBind ==
    [][/\ RegisterAfterBind(SlotFirst)
       /\ (BoundAll /\ \A j \in 1..(m_loadedTextures - 1) :
                          m_textureIDs[j].tag # m_textureIDs[m_loadedTextures].tag)
              => RegisterAfterBind(SlotLast)]_vars

\* a third texture was registered after BindGLTextures had bound two: unit 1 is
\* active and empty, unit 0 still holds the first entry's texture, and the
\* second entry's tag still resolves to slot 1
C20_Witness ==
    /\ last.op = "CreateGLTexture"
    /\ last.ok
    /\ m_loadedTextures = 3
    /\ glActiveUnit = 1
    /\ glBound[1] = 0
    /\ glBound[0] = m_textureIDs[1].ID
    /\ FindTextureSlotValue(m_textureIDs, m_loadedTextures, m_textureIDs[2].tag) = 1

\* C21: a frame, with or without the orthographic pose reset, leaves yaw and
\* pitch as they were; and the first cursor sample processed after perspective
\* mode was entered adds its offsets to those yaw and pitch and sets Front to the
\* direction they give, whatever Front the reset had stored.
C21_ResetKeepsAngles ==
    [][/\ ev'.op = "PrepareSceneView" =>
              UNCHANGED <<yaw, pitch, gLastX, gLastY, gFirstMouse, Zoom, MovementSpeed>>
       /\ (/\ ev'.op = "Mouse_Position_Callback"
           /\ perspectiveProjection = TRUE
           /\ hActivated = TRUE)
          => LET dx == IF gFirstMouse THEN 0 ELSE gLastX' - gLastX
                 dy == IF gFirstMouse THEN 0 ELSE gLastY - gLastY'
             IN  /\ yaw' = yaw + dx
                 /\ pitch' = ClampPitch(pitch + dy)
                 /\ Front' = Normalize(Direction(yaw', pitch'))]_vars

\* back in perspective mode after a pose reset (Position is still the reset one),
\* a cursor sample was processed: yaw has left its initial value and Front is the
\* direction of yaw and pitch, not the reset Front
C21_Witness ==
    /\ ev.op = "Mouse_Position_Callback"
    /\ perspectiveProjection = TRUE
    /\ hActivated = FALSE
    /\ Position = <<0, 5000, 14000>>
    /\ yaw = 0
    /\ pitch = -890
    /\ Front = Normalize(Direction(yaw, pitch))
    /\ Front # <<0, -200, -1000>>

\* C5: pitch is between -89 and 89 degrees in every state, whatever cursor
\* samples, frames and scroll events came before.
C5_PitchClamped == pitch >= -890 /\ pitch <= 890

\* a cursor sample that pushed pitch below -89 degrees and was clamped, after a
\* scroll event and a frame
C5_Witness ==
    /\ ev.op = "Mouse_Position_Callback"
    /\ pitch = -890
    /\ MovementSpeed # CameraDefaultSpeed
    /\ gLastFrame > 0

\* C6: a scroll event with vertical delta dy leaves movementSpeed at 0.1 if
\* v < 0.1, at 10.0 if v > 20.0 and at v otherwise, v being the previous
\* movementSpeed plus 0.1*dy; so movementSpeed is then within [0.1, 20.0].
C6_ScrollSpeed ==
    [][ev'.op = "scroll_callback"
          => LET v == MovementSpeed + ev'.dy
             IN  /\ MovementSpeed' = IF v < 1 THEN 1 ELSE IF v > 200 THEN 100 ELSE v
                 /\ MovementSpeed' >= 1
                 /\ MovementSpeed' <= 200]_vars

\* a scroll up that ends at 10.0: the speed would have passed 20.0 and was reset
C6_Witness ==
    /\ ev.op = "scroll_callback"
    /\ ev.dy = 100
    /\ MovementSpeed = 100

\* C7: at the end of a frame that leaves the mode orthographic the pose is
\* Position (0,5,14), Front (0,-0.2,-1), Up (0,1,0).
C7_OrthographicPose ==
    (ev.op = "PrepareSceneView" /\ ~perspectiveProjection)
        => /\ Position = <<0, 5000, 14000>>
           /\ Front = <<0, -200, -1000>>
           /\ Up = <<0, 1000, 0>>

\* a frame that switches to orthographic with W held, after the mouse turned the
\* camera and a movement key moved it
C7_Witness ==
    /\ ev.op = "PrepareSceneView"
    /\ ev.keys = {"O", "W"}
    /\ ~perspectiveProjection
    /\ gLastFrame > 0
    /\ yaw # -900
    /\ u_view.eye # <<0, 3300, 12000>>
    /\ u_view.eye # <<0, 5000, 14000>>

\* C8: the mode starts as perspective; a frame leaves it orthographic if O is
\* held, else perspective if P is held, else as it was; no other step changes it.
C8_ProjectionMode ==
    /\ perspectiveProjection = TRUE
    /\ [][/\ ev'.op = "PrepareSceneView"
               => perspectiveProjection' =
                      (IF "O" \in ev'.keys THEN FALSE
                       ELSE IF "P" \in ev'.keys THEN TRUE
                       ELSE perspectiveProjection)
          /\ ev'.op # "PrepareSceneView"
               => perspectiveProjection' = perspectiveProjection]_vars

\* a frame with both P and O held, which leaves the mode orthographic
C8_Witness ==
    /\ ev.op = "PrepareSceneView"
    /\ ev.keys = {"P", "O"}
    /\ ~perspectiveProjection

====
